---- MODULE Spec2Model ----
(***************************************************************************)
(* Model of the repository concatenator (src/main.rs): one run of main,    *)
(* from argument checking to process exit.  Strings are sequences of       *)
(* one-character strings, so that the prefix, suffix, split and replace    *)
(* operations of the code are computed character by character.             *)
(***************************************************************************)
EXTENDS Integers, Sequences, FiniteSets, TLC

\* ------------------------------------------------------------------------
\* Bounds of the model
\* ------------------------------------------------------------------------

\* most entries (files and directories together) of a repository tree
MaxNodes == 3

\* most path segments after the prefix of a generated source string
MaxSegs == 2

\* ------------------------------------------------------------------------
\* String primitives of the Rust standard library used by main.rs
\* ------------------------------------------------------------------------

starts_with(s, p) == Len(s) >= Len(p) /\ SubSeq(s, 1, Len(p)) = p

ends_with(s, p) == Len(s) >= Len(p) /\ SubSeq(s, Len(s) - Len(p) + 1, Len(s)) = p

RECURSIVE trim_end_matches(_, _)
trim_end_matches(s, c) ==
    IF s # <<>> /\ s[Len(s)] = c
    THEN trim_end_matches(SubSeq(s, 1, Len(s) - 1), c)
    ELSE s

\* index of the last occurrence of character c in s, 0 when there is none
LastIndexOf(s, c) ==
    LET hits == {i \in 1..Len(s) : s[i] = c}
    IN  IF hits = {} THEN 0 ELSE CHOOSE i \in hits : \A j \in hits : j <= i

\* s.split(c).last(): the part after the last c, the whole of s without one
split_last(s, c) == SubSeq(s, LastIndexOf(s, c) + 1, Len(s))

\* s.strip_suffix(suf).unwrap_or(s)
strip_suffix_or_self(s, suf) ==
    IF ends_with(s, suf) THEN SubSeq(s, 1, Len(s) - Len(suf)) ELSE s

AsciiLower ==
    {"a","b","c","d","e","f","g","h","i","j","k","l","m",
     "n","o","p","q","r","s","t","u","v","w","x","y","z"}

AsciiUpper ==
    {"A","B","C","D","E","F","G","H","I","J","K","L","M",
     "N","O","P","Q","R","S","T","U","V","W","X","Y","Z"}

AsciiDigit == {"0","1","2","3","4","5","6","7","8","9"}

is_ascii_alphanumeric(c) == c \in AsciiLower \cup AsciiUpper \cup AsciiDigit

LowerOf ==
    [c \in AsciiUpper |->
        CASE c = "A" -> "a" [] c = "B" -> "b" [] c = "C" -> "c" [] c = "D" -> "d"
          [] c = "E" -> "e" [] c = "F" -> "f" [] c = "G" -> "g" [] c = "H" -> "h"
          [] c = "I" -> "i" [] c = "J" -> "j" [] c = "K" -> "k" [] c = "L" -> "l"
          [] c = "M" -> "m" [] c = "N" -> "n" [] c = "O" -> "o" [] c = "P" -> "p"
          [] c = "Q" -> "q" [] c = "R" -> "r" [] c = "S" -> "s" [] c = "T" -> "t"
          [] c = "U" -> "u" [] c = "V" -> "v" [] c = "W" -> "w" [] c = "X" -> "x"
          [] c = "Y" -> "y" [] c = "Z" -> "z"]

to_lowercase(s) == [i \in 1..Len(s) |-> IF s[i] \in AsciiUpper THEN LowerOf[s[i]] ELSE s[i]]

\* Option<T> is a sequence of length at most one
None == <<>>

Some(x) == <<x>>

\* Path::extension of a path: of its last component, the part after the last
\* dot, unless the component has no dot or its only dot is its first character
extension(path) ==
    LET file == split_last(path, "/")
        dot  == LastIndexOf(file, ".")
    IN  IF file = <<".", ".">> \/ dot <= 1
        THEN None
        ELSE Some(SubSeq(file, dot + 1, Len(file)))

\* Path::join of a relative path and a name
join(base, name) == IF base = <<>> THEN name ELSE base \o <<"/">> \o name

\* ------------------------------------------------------------------------
\* FileProcessor::new: the ignore lists
\* ------------------------------------------------------------------------

ignore_dirs == {<<".", "g", "i", "t">>, <<"n", "o", "d", "e", "_", "m", "o", "d", "u", "l", "e", "s">>, <<"t", "a", "r", "g", "e", "t">>, <<"d", "i", "s", "t">>, <<"b", "u", "i", "l", "d">>}

ignore_files == {<<".", "D", "S", "_", "S", "t", "o", "r", "e">>, <<"y", "a", "r", "n", ".", "l", "o", "c", "k">>}

ignore_extensions ==
    {<<"e", "x", "e">>, <<"d", "l", "l">>, <<"s", "o">>, <<"d", "y", "l", "i", "b">>,
     <<"p", "n", "g">>, <<"j", "p", "g">>, <<"j", "p", "e", "g">>, <<"g", "i", "f">>, <<"i", "c", "o">>, <<"b", "m", "p">>, <<"t", "i", "f", "f">>, <<"w", "e", "b", "p">>,
     <<"z", "i", "p">>, <<"r", "a", "r">>, <<"7", "z">>, <<"t", "a", "r">>, <<"g", "z">>, <<"b", "z", "2">>,
     <<"p", "d", "f">>, <<"d", "o", "c">>, <<"d", "o", "c", "x">>, <<"x", "l", "s">>, <<"x", "l", "s", "x">>, <<"p", "p", "t">>, <<"p", "p", "t", "x">>,
     <<"c", "l", "a", "s", "s">>, <<"p", "y", "c">>, <<"p", "y", "o">>, <<"p", "y", "d">>,
     <<"m", "p", "3">>, <<"m", "p", "4">>, <<"w", "a", "v">>, <<"a", "v", "i">>, <<"m", "o", "v">>, <<"f", "l", "v">>, <<"m", "k", "v">>,
     <<"d", "b">>, <<"s", "q", "l", "i", "t", "e">>, <<"s", "q", "l", "i", "t", "e", "3">>}

\* line 90: a directory is walked unless its name is ignored
dir_ignored(name) == name \in ignore_dirs

\* a variant that lowercases the extension before the lookup
should_ignore_file_lowercased(filename) ==
    \/ filename \in ignore_files
    \/ /\ extension(filename) # None
       /\ to_lowercase(extension(filename)[1]) \in ignore_extensions

\* lines 120-132: the extension is looked up as written
should_ignore_file(filename) ==
    IF filename \in ignore_files
    THEN TRUE
    ELSE IF extension(filename) # None
         THEN extension(filename)[1] \in ignore_extensions
         ELSE FALSE

get_language_from_ext(filepath) ==
    LET ext == IF extension(filepath) # None
               THEN to_lowercase(extension(filepath)[1])
               ELSE <<>>
    IN  CASE ext \in {<<"j", "s">>, <<"j", "s", "x">>} -> <<"j", "a", "v", "a", "s", "c", "r", "i", "p", "t">>
          [] ext \in {<<"t", "s">>, <<"t", "s", "x">>} -> <<"t", "y", "p", "e", "s", "c", "r", "i", "p", "t">>
          [] ext = <<"p", "y">> -> <<"p", "y", "t", "h", "o", "n">>
          [] ext = <<"r", "b">> -> <<"r", "u", "b", "y">>
          [] ext = <<"j", "a", "v", "a">> -> <<"j", "a", "v", "a">>
          [] ext = <<"c", "s">> -> <<"c", "s", "h", "a", "r", "p">>
          [] ext \in {<<"c", "p", "p">>, <<"h", "p", "p">>} -> <<"c", "p", "p">>
          [] ext \in {<<"c">>, <<"h">>} -> <<"c">>
          [] ext = <<"r", "s">> -> <<"r", "u", "s", "t">>
          [] ext = <<"g", "o">> -> <<"g", "o">>
          [] ext = <<"p", "h", "p">> -> <<"p", "h", "p">>
          [] ext = <<"h", "t", "m", "l">> -> <<"h", "t", "m", "l">>
          [] ext = <<"c", "s", "s">> -> <<"c", "s", "s">>
          [] ext = <<"s", "c", "s", "s">> -> <<"s", "c", "s", "s">>
          [] ext = <<"m", "d">> -> <<"m", "a", "r", "k", "d", "o", "w", "n">>
          [] ext = <<"j", "s", "o", "n">> -> <<"j", "s", "o", "n">>
          [] ext = <<"x", "m", "l">> -> <<"x", "m", "l">>
          [] ext \in {<<"y", "a", "m", "l">>, <<"y", "m", "l">>} -> <<"y", "a", "m", "l">>
          [] ext \in {<<"s", "h">>, <<"b", "a", "s", "h">>} -> <<"b", "a", "s", "h">>
          [] ext = <<"s", "q", "l">> -> <<"s", "q", "l">>
          [] ext = <<"k", "t">> -> <<"k", "o", "t", "l", "i", "n">>
          [] ext = <<"s", "w", "i", "f", "t">> -> <<"s", "w", "i", "f", "t">>
          [] ext = <<"r">> -> <<"r">>
          [] ext = <<"l", "u", "a">> -> <<"l", "u", "a">>
          [] ext \in {<<"p", "l">>, <<"p", "e", "r", "l">>} -> <<"p", "e", "r", "l">>
          [] ext = <<"d", "a", "r", "t">> -> <<"d", "a", "r", "t">>
          [] ext \in {<<"e", "x">>, <<"e", "x", "s">>} -> <<"e", "l", "i", "x", "i", "r">>
          [] ext = <<"e", "r", "l">> -> <<"e", "r", "l", "a", "n", "g">>
          [] ext \in {<<"f", "s">>, <<"f", "s", "x">>} -> <<"f", "s", "h", "a", "r", "p">>
          [] ext = <<"h", "s">> -> <<"h", "a", "s", "k", "e", "l", "l">>
          [] ext = <<"s", "c", "a", "l", "a">> -> <<"s", "c", "a", "l", "a">>
          [] ext = <<"t", "o", "m", "l">> -> <<"t", "o", "m", "l">>
          [] OTHER -> <<>>

\* ------------------------------------------------------------------------
\* The file system: a directory is the sequence of its entries in the order
\* read_dir yields them
\* ------------------------------------------------------------------------

DiskFile(name, bytes) == [kind |-> "file", name |-> name, bytes |-> bytes, entries |-> <<>>]

DiskDir(name, entries) == [kind |-> "dir", name |-> name, bytes |-> <<>>, entries |-> entries]

FileNames == {<<"a", "p", "p", ".", "p", "y">>, <<"p", "h", "o", "t", "o", ".", "p", "n", "g">>, <<"P", ".", "P", "N", "G">>, <<".", "D", "S", "_", "S", "t", "o", "r", "e">>, <<"y", "a", "r", "n", ".", "l", "o", "c", "k">>, <<".", "p", "n", "g">>}

DirNames == {<<"s", "r", "c">>, <<"b", "u", "i", "l", "d">>}

NamesOf(listing) == {listing[i].name : i \in 1..Len(listing)}

\* the repository trees with exactly n entries; sibling names are distinct
RECURSIVE ForestsOf(_), EntriesOf(_)
ForestsOf(n) ==
    IF n = 0
    THEN {<<>>}
    ELSE UNION {UNION {{<<e>> \o rest :
                           e \in {x \in EntriesOf(k) : x.name \notin NamesOf(rest)}}
                       : rest \in ForestsOf(n - k)}
                : k \in 1..n}

EntriesOf(k) ==
    (IF k = 1 THEN {DiskFile(nm, nm) : nm \in FileNames} ELSE {}) \cup
    {DiskDir(nm, sub) : nm \in DirNames, sub \in ForestsOf(k - 1)}

Forests == UNION {ForestsOf(n) : n \in 0..MaxNodes}

\* ------------------------------------------------------------------------
\* FileProcessor::get_file_structure
\* ------------------------------------------------------------------------

Ok(v) == [ok |-> TRUE, val |-> v]

Err == [ok |-> FALSE, val |-> <<>>]

\* a variant that swallows the listing error
ReadDirNeverFails(base_path, faults) == TRUE

\* fs::read_dir(dir)? and entry?: listing fails for the directories in faults
read_dir_ok(base_path, faults) == base_path \notin faults

\* entry.metadata()?: fails for the files in faults
metadata_ok(relative_path, faults) == relative_path \notin faults

\* a variant without the test of line 92
KeepEveryDirectory(children) == TRUE

\* line 92: a directory is pushed only with a child
keep_directory(children) == children # <<>>

DirectoryEntry(name, relative_path, children) ==
    [entry_type |-> "directory", name |-> name, path |-> relative_path,
     size |-> None, children |-> Some(children)]

RegularEntry(name, relative_path, len) ==
    [entry_type |-> "file", name |-> name, path |-> relative_path,
     size |-> Some(len), children |-> None]

RECURSIVE get_file_structure(_, _, _), walk_entries(_, _, _, _)
get_file_structure(listing, base_path, faults) ==
    IF ~read_dir_ok(base_path, faults)
    THEN Err
    ELSE walk_entries(listing, base_path, faults, <<>>)

\* the for loop of lines 82-114 over the entries not yet visited
walk_entries(listing, base_path, faults, structure) ==
    IF listing = <<>>
    THEN Ok(structure)
    ELSE LET entry         == Head(listing)
             name          == entry.name
             relative_path == join(base_path, name)
         IN  IF entry.kind = "dir"
             THEN IF ~dir_ignored(name)
                  THEN LET children == get_file_structure(entry.entries, relative_path, faults)
                       IN  IF ~children.ok
                           THEN Err
                           ELSE walk_entries(Tail(listing), base_path, faults,
                                    IF keep_directory(children.val)
                                    THEN Append(structure,
                                             DirectoryEntry(name, relative_path, children.val))
                                    ELSE structure)
                  ELSE walk_entries(Tail(listing), base_path, faults, structure)
             ELSE IF ~should_ignore_file(name)
                  THEN IF ~metadata_ok(relative_path, faults)
                       THEN Err
                       ELSE walk_entries(Tail(listing), base_path, faults,
                                Append(structure,
                                    RegularEntry(name, relative_path, Len(entry.bytes))))
                  ELSE walk_entries(Tail(listing), base_path, faults, structure)

\* every relative path of a tree, the root's own (empty) path excluded
RECURSIVE PathsOf(_, _)
PathsOf(listing, base_path) ==
    UNION {{join(base_path, listing[i].name)} \cup
           PathsOf(listing[i].entries, join(base_path, listing[i].name))
              : i \in 1..Len(listing)}

\* ------------------------------------------------------------------------
\* serde_json::to_string_pretty of the structure: a value is the sequence of
\* its key/value pairs in field order, the None fields left out
\* ------------------------------------------------------------------------

RECURSIVE to_json(_)
to_json(structure) ==
    [i \in 1..Len(structure) |->
        LET e == structure[i]
        IN  <<<<"type", e.entry_type>>, <<"name", e.name>>, <<"path", e.path>>>>
            \o (IF e.size # None THEN <<<<"size", e.size[1]>>>> ELSE <<>>)
            \o (IF e.children # None
                THEN <<<<"children", to_json(e.children[1])>>>>
                ELSE <<>>)]

\* ------------------------------------------------------------------------
\* main, lines 271-297: the name of the output file
\* ------------------------------------------------------------------------

\* line 291: the characters kept by the replace
name_char(c) == IF ~is_ascii_alphanumeric(c) /\ c # "-" /\ c # "_" THEN "-" ELSE c

\* lines 272-291
clean_repo_name(arg) ==
    LET trimmed == IF ends_with(arg, <<"/">>) THEN trim_end_matches(arg, "/") ELSE arg
        segment == IF starts_with(trimmed, <<"g", "i", "t", "@">>)
                   THEN split_last(trimmed, ":")
                   ELSE split_last(trimmed, "/")
        stem    == strip_suffix_or_self(segment, <<".", "g", "i", "t">>)
    IN  [i \in 1..Len(stem) |-> name_char(stem[i])]

\* lines 293-297: the value of the if expression
name_or_fallback(name) == IF name = <<>> THEN <<"r", "e", "p", "o", "s", "i", "t", "o", "r", "y">> ELSE name

\* line 304
output_path_of(name) == <<".", "/", "o", "u", "t", "p", "u", "t", "/">> \o name \o <<".", "m", "d">>

\* line 184
is_remote(repo_path) ==
    \/ starts_with(repo_path, <<"h", "t", "t", "p">>)
    \/ starts_with(repo_path, <<"g", "i", "t", "@">>)
    \/ starts_with(repo_path, <<"s", "s", "h", ":", "/", "/">>)

\* line 244
Placeholder == <<"[", "B", "i", "n", "a", "r", "y", " ", "o", "r", " ", "n", "o", "n", "-", "U", "T", "F", "8", " ", "f", "i", "l", "e", " ", "c", "o", "n", "t", "e", "n", "t", " ", "s", "k", "i", "p", "p", "e", "d", "]">>

\* ------------------------------------------------------------------------
\* Inputs
\* ------------------------------------------------------------------------

\* the tree of section 8 of the specification: src/app.py, empty/, photo.png
SampleRepo ==
    <<DiskDir(<<"s", "r", "c">>, <<DiskFile(<<"a", "p", "p", ".", "p", "y">>, <<"a", "p", "p", ".", "p", "y">>)>>),
      DiskDir(<<"e", "m", "p", "t", "y">>, <<>>),
      DiskFile(<<"p", "h", "o", "t", "o", ".", "p", "n", "g">>, <<"p", "h", "o", "t", "o", ".", "p", "n", "g">>)>>

Prefixes == {<<>>, <<"g", "i", "t", "@", "g", "i", "t", "h", "u", "b", ".", "c", "o", "m", ":">>, <<"h", "t", "t", "p", "s", ":", "/", "/", "e", "x", "a", "m", "p", "l", "e", ".", "c", "o", "m", "/">>, <<"s", "s", "h", ":", "/", "/", "h", "o", "s", "t", "/">>}

Segments == {<<"u", "s", "e", "r">>, <<"o", "r", "g">>, <<"m", "y", "-", "r", "e", "p", "o">>, <<"r", "e", "p", "o", ".", "g", "i", "t">>, <<".", "g", "i", "t">>, <<"h", "t", "t", "p", "d", "o", "c", "s">>, <<"a", ".", "b">>}

Suffixes == {<<>>, <<"/">>, <<"/", "/">>}

RECURSIVE SegmentPaths(_)
SegmentPaths(n) ==
    IF n = 0
    THEN {<<>>}
    ELSE SegmentPaths(n - 1) \cup
         {join(p, s) : p \in SegmentPaths(n - 1), s \in Segments}

Sources == {p \o body \o s : p \in Prefixes, body \in SegmentPaths(MaxSegs), s \in Suffixes}

TreeSources == {<<"w", "o", "r", "k", "/", "r", "e", "p", "o">>, <<"h", "t", "t", "p", "s", ":", "/", "/", "e", "x", "a", "m", "p", "l", "e", ".", "c", "o", "m", "/", "o", "r", "g", "/", "m", "y", "-", "r", "e", "p", "o", ".", "g", "i", "t">>}

ArgCounts == {1, 2, 3}

CloneOutcomes == {"spawn_error", "exit_zero", "exit_nonzero"}

\* what a successful clone leaves in the destination
cloned_tree(tree) == <<DiskDir(<<".", "g", "i", "t">>, <<DiskFile(<<"H", "E", "A", "D">>, <<"r", "e", "f">>)>>)>> \o tree

\* the single-fault choices of a tree walk: none, the root, or one path
FaultChoices(tree) == {{}} \cup {{p} : p \in PathsOf(tree, <<>>) \cup {<<>>}}

\* ------------------------------------------------------------------------
\* State
\* ------------------------------------------------------------------------

VARIABLES
    pc,          \* the statement of main / generate_markdown about to run
    source,      \* args[1]
    repo,        \* the tree of the repository the source names
    repo_name,   \* main's repo_name once derived
    temp_dir,    \* "unset", "exists" or "removed": the TempDir of line 186
    repo_dir,    \* "unset", "local" or "temp": what repo_dir points at
    disk,        \* the tree found at repo_dir
    clone,       \* "none" or the outcome of the git subprocess
    faults,      \* the paths at which the file system fails during the walk
    structure,   \* generate_markdown's structure
    markdown,    \* generate_markdown's markdown: its lines, each a pair of the
                 \* line's kind ("heading1" for #, "heading2" for ##, "fence",
                 \* "close", "json", "content") and its text
    stack,       \* process_files: the entries left in every active call
    warnings,    \* paths of the "Unable to read" warnings on stderr
    output,      \* the files written under ./output, in order
    exit_code    \* -1 while running, then the exit status

vars == <<pc, source, repo, repo_name, temp_dir, repo_dir, disk, clone, faults,
          structure, markdown, stack, warnings, output, exit_code>>

InitWith(src, tree) ==
    /\ pc = "start"
    /\ source = src
    /\ repo = tree
    /\ repo_name = <<>>
    /\ temp_dir = "unset"
    /\ repo_dir = "unset"
    /\ disk = <<>>
    /\ clone = "none"
    /\ faults = {}
    /\ structure = <<>>
    /\ markdown = <<>>
    /\ stack = <<>>
    /\ warnings = <<>>
    /\ output = <<>>
    /\ exit_code = -1

\* every repository tree within MaxNodes, behind a local and a remote source
Init == \E src \in TreeSources, tree \in Forests : InitWith(src, tree)

\* every generated source string, in front of the sample repository
InitSrc == \E src \in Sources : InitWith(src, SampleRepo)

\* ------------------------------------------------------------------------
\* Steps
\* ------------------------------------------------------------------------

\* a variant that keeps the directory, as TempDir::into_path would
LeakTempDir(t) == t

\* the TempDir goes out of scope when generate_markdown returns
drop_temp_dir(t) == IF t = "exists" THEN "removed" ELSE t

\* main returns Err, or process::exit(1)
Fail ==
    /\ pc' = "exited"
    /\ exit_code' = 1

\* a ? inside generate_markdown returns Err through main
FailGenerate ==
    /\ Fail
    /\ temp_dir' = drop_temp_dir(temp_dir)

\* lines 262-266
CheckArgs ==
    /\ pc = "start"
    /\ \E argc \in ArgCounts :
          IF argc # 2
          THEN Fail
          ELSE pc' = "mkdir" /\ exit_code' = exit_code
    /\ UNCHANGED <<source, repo, repo_name, temp_dir, repo_dir, disk, clone, faults,
                   structure, markdown, stack, warnings, output>>

\* line 269
CreateOutputDir ==
    /\ pc = "mkdir"
    /\ \E created \in BOOLEAN :
          IF created
          THEN pc' = "name" /\ exit_code' = exit_code
          ELSE Fail
    /\ UNCHANGED <<source, repo, repo_name, temp_dir, repo_dir, disk, clone, faults,
                   structure, markdown, stack, warnings, output>>

\* lines 271-297: the if expression of lines 293-297 is evaluated and its
\* value is bound to nothing, so repo_name stays the cleaned name
DeriveRepoName ==
    /\ pc = "name"
    /\ LET cleaned   == clean_repo_name(source)
           discarded == name_or_fallback(cleaned)
       IN  repo_name' = cleaned
    /\ pc' = "resolve"
    /\ UNCHANGED <<source, repo, temp_dir, repo_dir, disk, clone, faults,
                   structure, markdown, stack, warnings, output, exit_code>>

\* lines 184, 209-211
ResolveSource ==
    /\ pc = "resolve"
    /\ IF is_remote(source)
       THEN pc' = "tempdir" /\ UNCHANGED <<repo_dir, disk>>
       ELSE pc' = "build" /\ repo_dir' = "local" /\ disk' = repo
    /\ UNCHANGED <<source, repo, repo_name, temp_dir, clone, faults,
                   structure, markdown, stack, warnings, output, exit_code>>

\* line 186
CreateTempDir ==
    /\ pc = "tempdir"
    /\ \E created \in BOOLEAN :
          IF created
          THEN pc' = "clone" /\ temp_dir' = "exists" /\ exit_code' = exit_code
          ELSE FailGenerate
    /\ UNCHANGED <<source, repo, repo_name, repo_dir, disk, clone, faults,
                   structure, markdown, stack, warnings, output>>

\* lines 190-208: the options given to git change nothing of the state, and
\* the exit status of the subprocess is not looked at
RunClone ==
    /\ pc = "clone"
    /\ \E outcome \in CloneOutcomes :
          /\ clone' = outcome
          /\ IF outcome = "spawn_error"
             THEN FailGenerate /\ UNCHANGED <<repo_dir, disk>>
             ELSE /\ pc' = "build"
                  /\ repo_dir' = "temp"
                  /\ disk' = IF outcome = "exit_zero" THEN cloned_tree(repo) ELSE <<>>
                  /\ UNCHANGED <<temp_dir, exit_code>>
    /\ UNCHANGED <<source, repo, repo_name, faults,
                   structure, markdown, stack, warnings, output>>

\* line 214
BuildTree ==
    /\ pc = "build"
    /\ \E f \in FaultChoices(disk) :
          /\ faults' = f
          /\ LET result == get_file_structure(disk, <<>>, f)
             IN  IF result.ok
                 THEN /\ structure' = result.val
                      /\ pc' = "serialize"
                      /\ UNCHANGED <<temp_dir, exit_code>>
                 ELSE FailGenerate /\ UNCHANGED structure
    /\ UNCHANGED <<source, repo, repo_name, repo_dir, disk, clone,
                   markdown, stack, warnings, output>>

\* lines 217-219 and the call of line 222
Serialize ==
    /\ pc = "serialize"
    /\ \E serialized \in BOOLEAN :
          IF serialized
          THEN /\ markdown' = <<<<"heading1", <<"R", "e", "p", "o", "s", "i", "t", "o", "r", "y", " ", "S", "t", "r", "u", "c", "t", "u", "r", "e">>>>,
                                <<"fence", <<"j", "s", "o", "n">>>>,
                                <<"json", to_json(structure)>>,
                                <<"close", <<>>>>,
                                <<"heading1", <<"F", "i", "l", "e", " ", "C", "o", "n", "t", "e", "n", "t", "s">>>>>>
               /\ stack' = <<structure>>
               /\ pc' = "render"
               /\ UNCHANGED <<temp_dir, exit_code>>
          ELSE FailGenerate /\ UNCHANGED <<markdown, stack>>
    /\ UNCHANGED <<source, repo, repo_name, repo_dir, disk, clone, faults,
                   structure, warnings, output>>

\* a variant that puts the children behind the rest of this call
DescendAfterSiblings(frames, children) ==
    <<Tail(Head(frames)) \o children>> \o Tail(frames)

\* lines 230-234: the children are processed before the rest of this call
descend(frames, children) ==
    <<children, Tail(Head(frames))>> \o Tail(frames)

ProcessDirectory ==
    /\ pc = "render"
    /\ stack # <<>> /\ Head(stack) # <<>>
    /\ LET entry == Head(Head(stack))
       IN  /\ entry.entry_type = "directory"
           /\ stack' = IF entry.children # None
                       THEN descend(stack, entry.children[1])
                       ELSE <<Tail(Head(stack))>> \o Tail(stack)
    /\ UNCHANGED <<pc, source, repo, repo_name, temp_dir, repo_dir, disk, clone, faults,
                   structure, markdown, warnings, output, exit_code>>

\* the bytes of the file at a relative path of a tree
RECURSIVE bytes_at(_, _, _)
bytes_at(listing, base_path, path) ==
    IF listing = <<>>
    THEN <<>>
    ELSE LET here == join(base_path, Head(listing).name)
         IN  IF here = path
             THEN Head(listing).bytes
             ELSE IF starts_with(path, here \o <<"/">>)
                  THEN bytes_at(Head(listing).entries, here, path)
                  ELSE bytes_at(Tail(listing), base_path, path)

\* a variant that leaves the text empty when the read fails
EmptyOnReadError(read_ok, bytes) == IF read_ok THEN bytes ELSE <<>>

\* lines 240-246: the text read, or the placeholder when the read fails
content_of(read_ok, bytes) == IF read_ok THEN bytes ELSE Placeholder

\* lines 249-253
section(path, lang, content) ==
    <<<<"heading2", path>>, <<"fence", lang>>, <<"content", content>>,
      <<"close", <<>>>>>>

\* lines 236-253: a read fails when the file is not UTF-8, or is unreadable
\* or gone by now
ProcessFile ==
    /\ pc = "render"
    /\ stack # <<>> /\ Head(stack) # <<>>
    /\ LET entry     == Head(Head(stack))
           full_path == entry.path
       IN  /\ entry.entry_type # "directory"
           /\ \E read_ok \in BOOLEAN :
                 LET content == content_of(read_ok, bytes_at(disk, <<>>, full_path))
                 IN  /\ warnings' = IF read_ok THEN warnings ELSE Append(warnings, entry.path)
                     /\ markdown' = markdown \o
                           section(entry.path, get_language_from_ext(full_path), content)
           /\ stack' = <<Tail(Head(stack))>> \o Tail(stack)
    /\ UNCHANGED <<pc, source, repo, repo_name, temp_dir, repo_dir, disk, clone, faults,
                   structure, output, exit_code>>

\* line 256, and line 224 when the outermost call returns
ProcessReturn ==
    /\ pc = "render"
    /\ stack # <<>> /\ Head(stack) = <<>>
    /\ stack' = Tail(stack)
    /\ IF Tail(stack) = <<>>
       THEN pc' = "write" /\ temp_dir' = drop_temp_dir(temp_dir)
       ELSE UNCHANGED <<pc, temp_dir>>
    /\ UNCHANGED <<source, repo, repo_name, repo_dir, disk, clone, faults,
                   structure, markdown, warnings, output, exit_code>>

\* lines 304-308
WriteOutput ==
    /\ pc = "write"
    /\ \E written \in BOOLEAN :
          IF written
          THEN /\ output' = Append(output, [path |-> output_path_of(repo_name),
                                            data |-> markdown])
               /\ pc' = "exited"
               /\ exit_code' = 0
          ELSE Fail /\ UNCHANGED output
    /\ UNCHANGED <<source, repo, repo_name, temp_dir, repo_dir, disk, clone, faults,
                   structure, markdown, stack, warnings>>

Next ==
    \/ CheckArgs
    \/ CreateOutputDir
    \/ DeriveRepoName
    \/ ResolveSource
    \/ CreateTempDir
    \/ RunClone
    \/ BuildTree
    \/ Serialize
    \/ ProcessDirectory
    \/ ProcessFile
    \/ ProcessReturn
    \/ WriteOutput

Spec == Init /\ [][Next]_vars

SpecSrc == InitSrc /\ [][Next]_vars

\* ------------------------------------------------------------------------
\* Reading the rendered document and the disk, for the properties below
\* ------------------------------------------------------------------------

\* the structure summary: the JSON block of the document, once pushed
HasSummary == Len(markdown) >= 5

Summary == markdown[3][2]

\* generate_markdown has returned Ok: the document is complete
Rendered == HasSummary /\ pc \in {"write", "exited"}

JType(node) == node[1][2]

JPath(node) == node[3][2]

JChildren(node) ==
    IF Len(node) >= 4 /\ node[4][1] = "children" THEN node[4][2] ELSE <<>>

\* the paths of the File nodes of a summary, depth first
RECURSIVE SummaryFiles(_)
SummaryFiles(json) ==
    IF json = <<>>
    THEN <<>>
    ELSE (IF JType(Head(json)) = "file"
          THEN <<JPath(Head(json))>>
          ELSE SummaryFiles(JChildren(Head(json))))
         \o SummaryFiles(Tail(json))

\* the Directory nodes of a summary, at every depth
RECURSIVE SummaryDirNodes(_)
SummaryDirNodes(json) ==
    UNION {IF JType(json[i]) = "directory"
           THEN {json[i]} \cup SummaryDirNodes(JChildren(json[i]))
           ELSE {}
              : i \in 1..Len(json)}

SeqToSet(s) == {s[i] : i \in 1..Len(s)}

\* the lines of the body: what follows the second top-level heading
Body == SubSeq(markdown, 6, Len(markdown))

IsHeading2(line) == line[1] = "heading2"

BodyHeadings ==
    LET hs == SelectSeq(Body, IsHeading2)
    IN  [i \in 1..Len(hs) |-> hs[i][2]]

\* the body is a sequence of whole sections: heading, fence, content, close
BodySectioned ==
    /\ Len(Body) % 4 = 0
    /\ \A i \in 1..Len(Body) :
          Body[i][1] = (CASE i % 4 = 1 -> "heading2"
                          [] i % 4 = 2 -> "fence"
                          [] i % 4 = 3 -> "content"
                          [] OTHER     -> "close")

\* the text under the heading of path p
SectionBodies(p) == {Body[i + 2][2] : i \in {j \in 1..Len(Body) : Body[j] = <<"heading2", p>>}}

\* every entry of a tree with its path and the names of the directories
\* between the root and it
RECURSIVE DiskNodes(_, _, _)
DiskNodes(listing, base_path, above) ==
    UNION {{[kind |-> listing[i].kind, name |-> listing[i].name,
             path |-> join(base_path, listing[i].name), above |-> above]}
           \cup DiskNodes(listing[i].entries, join(base_path, listing[i].name),
                          above \cup {listing[i].name})
              : i \in 1..Len(listing)}

StatedIgnoredDirs == {<<".", "g", "i", "t">>, <<"n", "o", "d", "e", "_", "m", "o", "d", "u", "l", "e", "s">>, <<"t", "a", "r", "g", "e", "t">>, <<"d", "i", "s", "t">>, <<"b", "u", "i", "l", "d">>}

StatedIgnoredFiles == {<<".", "D", "S", "_", "S", "t", "o", "r", "e">>, <<"y", "a", "r", "n", ".", "l", "o", "c", "k">>}

\* a file survives ignore-filtering
Survives(f) ==
    /\ f.kind = "file"
    /\ f.above \cap StatedIgnoredDirs = {}
    /\ f.name \notin StatedIgnoredFiles
    /\ \/ extension(f.name) = None
       \/ extension(f.name)[1] \notin ignore_extensions

Surviving == {f \in DiskNodes(disk, <<>>, {}) : Survives(f)}

Beneath(f, d) == starts_with(f.path, d.path \o <<"/">>)

DiskDirs == {d \in DiskNodes(disk, <<>>, {}) : d.kind = "dir"}

\* ------------------------------------------------------------------------
\* C1: once rendering has finished, the body consists of whole sections, one
\* "## path" heading per File node of the structure summary and no other, in
\* the order of a depth-first traversal of the summary; while rendering runs
\* the headings are a prefix of that order.  Files whose read failed included.
\* ------------------------------------------------------------------------
C1_SectionsMatchSummary ==
    HasSummary =>
       /\ BodySectioned
       /\ Len(BodyHeadings) <= Len(SummaryFiles(Summary))
       /\ BodyHeadings = SubSeq(SummaryFiles(Summary), 1, Len(BodyHeadings))
       /\ Rendered => BodyHeadings = SummaryFiles(Summary)

\* a finished run whose summary has a file inside a directory followed by a
\* file of the root, and in which a read failed
C1_Witness ==
    /\ pc = "exited" /\ exit_code = 0 /\ output # <<>>
    /\ warnings # <<>>
    /\ Len(Summary) = 2
    /\ JType(Summary[1]) = "directory"
    /\ JType(Summary[2]) = "file"
    /\ Len(BodyHeadings) = 2

\* ------------------------------------------------------------------------
\* C2: a directory below the traversal root has a Directory node in the
\* summary iff some file beneath it survives ignore-filtering; no Directory
\* node has an empty child list.
\* ------------------------------------------------------------------------
C2_DirectoryIffSurvivingFile ==
    HasSummary =>
       /\ {JPath(n) : n \in SummaryDirNodes(Summary)} =
             {d.path : d \in {x \in DiskDirs : \E f \in Surviving : Beneath(f, x)}}
       /\ \A n \in SummaryDirNodes(Summary) : JChildren(n) # <<>>

\* a summary with a Directory node, of a disk where a directory with no
\* ignored name on its path lies inside that directory and is left out
C2_Witness ==
    /\ HasSummary
    /\ SummaryDirNodes(Summary) # {}
    /\ \E d \in DiskDirs :
          /\ d.above # {}
          /\ (d.above \cup {d.name}) \cap StatedIgnoredDirs = {}
          /\ d.path \notin {JPath(n) : n \in SummaryDirNodes(Summary)}

\* ------------------------------------------------------------------------
\* C6: a file is in the summary, and in the finished body, iff no directory
\* between the root and it has an ignored name, its name is not an ignored
\* file name and its extension, compared as written, is not ignored.
\* ------------------------------------------------------------------------
C6_FilePresentIffNotIgnored ==
    HasSummary =>
       /\ SeqToSet(SummaryFiles(Summary)) = {f.path : f \in Surviving}
       /\ Rendered => SeqToSet(BodyHeadings) = {f.path : f \in Surviving}

\* a finished document with a file kept although its extension in lower case
\* is ignored, beside a file left out
C6_Witness ==
    /\ Rendered
    /\ \E f \in Surviving :
          /\ extension(f.name) # None
          /\ to_lowercase(extension(f.name)[1]) \in ignore_extensions
          /\ f.path \in SeqToSet(BodyHeadings)
    /\ \E g \in DiskNodes(disk, <<>>, {}) :
          /\ g.kind = "file"
          /\ ~Survives(g)
          /\ g.path \notin SeqToSet(BodyHeadings)

WalkMeetsFault ==
    \E p \in faults :
       \/ p = <<>>
       \/ \E d \in DiskDirs :
             d.path = p /\ (d.above \cup {d.name}) \cap StatedIgnoredDirs = {}
       \/ \E f \in Surviving : f.path = p

C8_TreeFailureWritesNothing ==
    /\ WalkMeetsFault => pc = "exited" /\ exit_code # 0 /\ output = <<>>
    /\ Len(output) <= 1
    /\ output # <<>> =>
          /\ ~WalkMeetsFault
          /\ Rendered /\ stack = <<>>
          /\ BodyHeadings = SummaryFiles(Summary)
          /\ output[1].path = <<".", "/", "o", "u", "t", "p", "u", "t", "/">> \o repo_name \o <<".", "m", "d">>
          /\ output[1].data = markdown

\* a run ended by a directory two levels down that could not be listed
C8_Witness ==
    /\ pc = "exited" /\ exit_code = 1 /\ output = <<>>
    /\ \E d \in DiskDirs : d.above # {} /\ d.path \in faults
    /\ WalkMeetsFault

\* ------------------------------------------------------------------------
\* C10: no temporary directory is left when the process has exited, and the
\* temporary directory exists for as long as the clone, the tree walk, the
\* serialization and the rendering that use it run.
\* ------------------------------------------------------------------------
C10_TempDirRemovedAtExit ==
    /\ pc = "exited" => temp_dir # "exists"
    /\ pc = "clone" => temp_dir = "exists"
    /\ (repo_dir = "temp" /\ pc \in {"build", "serialize", "render"}) => temp_dir = "exists"
    /\ repo_dir = "temp" => temp_dir # "unset"

\* a run on a clone that failed at the final write, its directory removed
C10_Witness ==
    /\ pc = "exited" /\ exit_code = 1
    /\ repo_dir = "temp" /\ temp_dir = "removed"
    /\ Rendered /\ output = <<>>

\* ------------------------------------------------------------------------
\* What the specification states about the source string
\* ------------------------------------------------------------------------

\* the trailing segment of a source: after its last "/", and for the
\* git@host:user/repo form after its last ":" as well
StatedSegment(src) ==
    LET trimmed == trim_end_matches(src, "/")
        afterSlash == split_last(trimmed, "/")
    IN  IF starts_with(trimmed, <<"g", "i", "t", "@">>) THEN split_last(afterSlash, ":") ELSE afterSlash

StatedName(src) ==
    LET stem == strip_suffix_or_self(StatedSegment(src), <<".", "g", "i", "t">>)
    IN  [i \in 1..Len(stem) |->
            IF stem[i] \in AsciiLower \cup AsciiUpper \cup AsciiDigit \cup {"-", "_"}
            THEN stem[i] ELSE "-"]

StatedRemote(src) ==
    \/ starts_with(src, <<"h", "t", "t", "p", ":", "/", "/">>)
    \/ starts_with(src, <<"h", "t", "t", "p", "s", ":", "/", "/">>)
    \/ starts_with(src, <<"g", "i", "t", "@">>)
    \/ starts_with(src, <<"s", "s", "h", ":", "/", "/">>)

\* ------------------------------------------------------------------------
\* C3: after a clone that exits non-zero or cannot be started, the run ends
\* with a non-zero status, the tree of the scratch directory is never built
\* and nothing is written.
\* ------------------------------------------------------------------------
C3_CloneFailureAborts ==
    (StatedRemote(source) /\ clone \in {"spawn_error", "exit_nonzero"}) =>
       /\ pc = "exited"
       /\ exit_code # 0
       /\ structure = <<>> /\ ~HasSummary
       /\ output = <<>>

\* ------------------------------------------------------------------------
\* C4: the output file is named after the trailing segment of the source
\* alone, .git stripped and other characters replaced by "-": repo.md for
\* git@github.com:user/repo.git, my-repo.md for https://example.com/org/my-repo/
\* (the sources whose name comes out empty are C5's).
\* ------------------------------------------------------------------------
C4_NameIsTrailingSegment ==
    (output # <<>> /\ StatedName(source) # <<>>) =>
       output[1].path = <<".", "/", "o", "u", "t", "p", "u", "t", "/">> \o StatedName(source) \o <<".", "m", "d">>

\* ------------------------------------------------------------------------
\* C5: the name in the output path is never empty: a source whose derived
\* name is empty is written as repository.md.
\* ------------------------------------------------------------------------
C5_EmptyNameFallsBack ==
    output # <<>> =>
       /\ output[1].path # <<".", "/", "o", "u", "t", "p", "u", "t", "/", ".", "m", "d">>
       /\ StatedName(source) = <<>> => output[1].path = <<".", "/", "o", "u", "t", "p", "u", "t", "/", "r", "e", "p", "o", "s", "i", "t", "o", "r", "y", ".", "m", "d">>

\* ------------------------------------------------------------------------
\* C9: a source is cloned iff it begins with http://, https://, git@ or
\* ssh://; any other source is walked as a local directory, with no
\* temporary directory and no clone.
\* ------------------------------------------------------------------------
C9_RemoteIffScheme ==
    /\ ~StatedRemote(source) => temp_dir = "unset" /\ clone = "none" /\ repo_dir # "temp"
    /\ StatedRemote(source) => repo_dir # "local"

====
